---------------------------- MODULE Spec2Model ----------------------------
(***************************************************************************)
(* A model of convert.py: the K&R -> ANSI function-definition converter.   *)
(*                                                                         *)
(* Text is modelled character by character: a line is a sequence of        *)
(* one-character strings (ending in "\n" as the lines Python's file        *)
(* iteration yields), a file is a sequence of lines, a path is a sequence  *)
(* of characters.  The regular expressions of FileParser are transcribed   *)
(* node by node and matched by a backtracking matcher with the priorities  *)
(* of Python's re module (greedy repetition, leftmost alternative first).  *)
(***************************************************************************)
EXTENDS Naturals, Sequences, FiniteSets, TLC

(***************************************************************************)
(* Characters and character classes of Python's re.                        *)
(***************************************************************************)
Lower == {"a","b","c","d","e","f","g","h","i","j","k","l","m",
          "n","o","p","q","r","s","t","u","v","w","x","y","z"}

Upper == {"A","B","C","D","E","F","G","H","I","J","K","L","M",
          "N","O","P","Q","R","S","T","U","V","W","X","Y","Z"}

Digit == {"0","1","2","3","4","5","6","7","8","9"}

Punct == {"(", ")", ",", ";", "*", "{", "}", "=", ".", "_", "#", "/", "+"}

\* \s
Space == {" ", "\t", "\n", "\r", "\f"}

\* The characters that occur in the modelled texts.
Alphabet == Lower \cup Upper \cup Digit \cup Punct \cup Space

\* \S
NonSpace == Alphabet \ Space

\* .  (no DOTALL flag: everything but the newline)
AnyChar == Alphabet \ {"\n"}

\* [a-zA-Z_]
IdentStart == Lower \cup Upper \cup {"_"}

\* [a-zA-Z0-9_]
IdentChar == IdentStart \cup Digit

\* [0-9a-zA-Z]
AlNum == Digit \cup Lower \cup Upper

(***************************************************************************)
(* Regular expressions: a pattern is a sequence of nodes.                  *)
(***************************************************************************)
Cls(S) == << [t |-> "set", s |-> S] >>

Chr(c) == Cls({c})

Opt(r) == << [t |-> "opt", r |-> r] >>

Star(r) == << [t |-> "star", r |-> r] >>

Plus(r) == r \o Star(r)

Grp(n, r) == << [t |-> "grp", n |-> n, r |-> r] >>

Bol == << [t |-> "bol"] >>

Eol == << [t |-> "eol"] >>

RECURSIVE Lit(_)
Lit(w) == IF Len(w) = 0 THEN << >> ELSE Chr(Head(w)) \o Lit(Tail(w))

\* \s*
Ws == Star(Cls(Space))

\* [a-zA-Z_][a-zA-Z0-9_]*
Ident == Cls(IdentStart) \o Star(Cls(IdentChar))

(***************************************************************************)
(* The matcher.  re runs a pattern by backtracking: at an optional part or *)
(* a repetition it takes the greedy way first and keeps the other way on a *)
(* stack of choice points, and a failure resumes at the choice point kept  *)
(* last.  A machine state holds the pattern still to match (rs), the       *)
(* position in the text (i, 1-based), the groups captured so far, that     *)
(* stack, and the position the attempt started from; when an attempt       *)
(* fails with no choice point left, a search goes on from the next start   *)
(* position up to `upto`.  The bodies of the repetitions used here never   *)
(* match the empty string.                                                 *)
(***************************************************************************)
\* The result of a failed match; a successful one has end >= 1.
NoMatch == [end |-> 0, groups |-> << >>]

Matched(m) == m.end # 0

\* Python's truth test of m.group(n): the group took part and is not empty.
HasGroup(m, n) == n \in DOMAIN m.groups /\ Len(m.groups[n]) > 0

Attempt(pattern, i, caps, upto) ==
  [rs |-> pattern, i |-> i, caps |-> caps, stack |-> << >>,
   pattern |-> pattern, start |-> i, upto |-> upto,
   done |-> FALSE, m |-> NoMatch]

\* The way kept at an optional part or a repetition.
Choice(st, rest) == [rs |-> rest, i |-> st.i, caps |-> st.caps]

\* A failure: back to the choice point kept last; without one, the attempt
\* from this start position has failed.
Backtrack(st) ==
  IF Len(st.stack) > 0
    THEN LET top == st.stack[Len(st.stack)]
         IN [st EXCEPT !.rs = top.rs, !.i = top.i, !.caps = top.caps,
                       !.stack = SubSeq(@, 1, Len(@) - 1)]
    ELSE IF st.start < st.upto
      THEN [st EXCEPT !.rs = st.pattern, !.i = st.start + 1,
                      !.caps = << >>, !.start = st.start + 1]
      ELSE [st EXCEPT !.done = TRUE]

\* One step of the machine on the text s.
MatchStep(s, st) ==
  IF Len(st.rs) = 0
    THEN [st EXCEPT !.done = TRUE,
                    !.m = [end |-> st.i, groups |-> st.caps, start |-> st.start]]
  ELSE
    LET h == Head(st.rs)
        rest == Tail(st.rs)
    IN CASE h.t = "set" ->
              IF st.i <= Len(s) /\ s[st.i] \in h.s
                THEN [st EXCEPT !.rs = rest, !.i = st.i + 1] ELSE Backtrack(st)
         [] h.t = "bol" ->
              IF st.i = 1 THEN [st EXCEPT !.rs = rest] ELSE Backtrack(st)
         [] h.t = "eol" ->
              \* $ : at the end, or before a newline that ends the string
              IF st.i = Len(s) + 1 \/ (st.i = Len(s) /\ s[st.i] = "\n")
                THEN [st EXCEPT !.rs = rest] ELSE Backtrack(st)
         [] h.t = "opt" ->
              [st EXCEPT !.rs = h.r \o rest,
                         !.stack = Append(@, Choice(st, rest))]
         [] h.t = "star" ->
              [st EXCEPT !.rs = h.r \o << h >> \o rest,
                         !.stack = Append(@, Choice(st, rest))]
         [] h.t = "grp" ->
              [st EXCEPT !.rs = h.r \o << [t |-> "end", n |-> h.n, from |-> st.i] >>
                                    \o rest]
         [] h.t = "end" ->
              [st EXCEPT !.rs = rest,
                         !.caps = (h.n :> SubSeq(s, h.from, st.i - 1)) @@ @]

\* The machine run until it is done: Run(s, st, k) makes up to 2^k steps.
RECURSIVE Run(_, _, _)
Run(s, st, k) ==
  IF st.done THEN st
  ELSE IF k = 0 THEN MatchStep(s, st)
  ELSE Run(s, Run(s, st, k - 1), k - 1)

\* The steps a match may take: more than any text modelled needs.
Exhaustive(s, st) == Run(s, st, 24)

\* The first match, in Python's backtracking order, of the pattern rs
\* against s from position i, with the groups captured so far; the end is
\* the position after the match.
MatchAt(rs, s, i, caps) == Exhaustive(s, Attempt(rs, i, caps, i)).m

\* re.search(rs, s): the match at the leftmost position that has one.
SearchFrom(rs, s, i) ==
  IF i > Len(s) + 1 THEN NoMatch
  ELSE Exhaustive(s, Attempt(rs, i, << >>, Len(s) + 1)).m

re_search(rs, s) == SearchFrom(rs, s, 1)

(***************************************************************************)
(* The patterns of FileParser.                                             *)
(***************************************************************************)
return_value_re ==
  Bol \o Ws \o Opt(Grp("static", Lit(<<"s","t","a","t","i","c">>))) \o Ws
      \o Grp("retval", Ident) \o Ws \o Opt(Grp("pointer", Chr("*"))) \o Ws \o Eol

function_name_re ==
  Bol \o Ws \o Grp("name", Ident) \o Ws \o Chr("(") \o Ws
      \o Opt(Grp("args", Ident \o Star(Ws \o Chr(",") \o Ws \o Ident)))
      \o Ws \o Chr(")") \o Ws \o Eol

function_arg_re ==
  Bol \o Ws \o Grp("type", Ident) \o Ws \o Opt(Grp("pointer", Chr("*"))) \o Ws
      \o Grp("name", Plus(Cls(NonSpace))) \o Ws \o Chr(";") \o Ws \o Eol

function_begin_re == Ws \o Chr("{") \o Ws \o Eol

forward_declaration_re ==
  Bol \o Ws \o Opt(Grp("static", Lit(<<"s","t","a","t","i","c">>))) \o Ws
      \o Opt(Lit(<<"e","x","t","e","r","n">>)) \o Ws
      \o Opt(Grp("type", Ident)) \o Ws \o Opt(Chr("*")) \o Ws
      \o Grp("name", Ident) \o Ws \o Chr("(") \o Ws \o Chr(")") \o Ws
      \o Chr(";") \o Ws \o Eol

file_ext_re == Grp("name", Star(Cls(AnyChar))) \o Chr(".") \o Plus(Cls(AlNum)) \o Eol

whitespace_re == Bol \o Ws \o Eol


\* re.sub('\((.*)\)', ...) of declaration_converter: the pattern.
paren_group_re == Chr("(") \o Grp("1", Star(Cls(AnyChar))) \o Chr(")")

(***************************************************************************)
(* re.sub(rs, repl, s): every non-overlapping match, leftmost first, is    *)
(* replaced by repl.  repl is taken literally: the texts modelled hold no  *)
(* backslash, the only character re.sub treats specially in a template.    *)
(* The pattern used never matches the empty string.                        *)
(***************************************************************************)
RECURSIVE SubFrom(_, _, _, _)
SubFrom(rs, repl, s, i) ==
  LET m == SearchFrom(rs, s, i)
  IN IF Matched(m)
       THEN SubSeq(s, i, m.start - 1) \o repl \o SubFrom(rs, repl, s, m.end)
       ELSE SubSeq(s, i, Len(s))

re_sub(rs, repl, s) == SubFrom(rs, repl, s, 1)

\* len(text.split(',')): one more than the number of commas.
CountChar(c, s) == Cardinality({k \in DOMAIN s : s[k] = c})

SplitCount(s) == CountChar(",", s) + 1

(***************************************************************************)
(* Parser states.                                                          *)
(***************************************************************************)
SEARCH_FOR_FUNC == 1

READ_ARGUMENTS == 2

REPLACE_FUNCTION == 3

(***************************************************************************)
(* The header replace_function builds: name(type[*] name, ...) and a       *)
(* newline.  An argument is the tuple <<type, name, pointer>>.             *)
(***************************************************************************)
FormatArg(arg) ==
  arg[1] \o (IF arg[3] THEN <<"*">> ELSE << >>) \o <<" ">> \o arg[2]

RECURSIVE JoinArgs(_, _)
JoinArgs(args, index) ==
  IF index > Len(args) THEN << >>
  ELSE FormatArg(args[index])
         \o (IF index < Len(args) THEN <<",", " ">> ELSE << >>)
         \o JoinArgs(args, index + 1)

function_declaration(name, args) ==
  name \o <<"(">> \o JoinArgs(args, 1) \o <<")", "\n">>

(***************************************************************************)
(* The parameter text declaration_converter builds: type* name or          *)
(* type name, joined by a comma and a space.                               *)
(***************************************************************************)
\* A parameter text with the pointer marker before the name.
FormatDeclArgStarName(arg_tuple) ==
  arg_tuple[1] \o (IF arg_tuple[3] THEN <<" ", "*">> ELSE <<" ">>) \o arg_tuple[2]

\* One parameter of the text declaration_converter builds.
FormatDeclArg(arg_tuple) ==
  arg_tuple[1] \o (IF arg_tuple[3] THEN <<"*", " ">> ELSE <<" ">>) \o arg_tuple[2]

RECURSIVE new_forward_decl_args(_, _)
new_forward_decl_args(args_tuple_list, index) ==
  IF index > Len(args_tuple_list) THEN << >>
  ELSE FormatDeclArg(args_tuple_list[index])
         \o (IF index < Len(args_tuple_list) THEN <<",", " ">> ELSE << >>)
         \o new_forward_decl_args(args_tuple_list, index + 1)

repl_line(args_tuple_list, line) ==
  re_sub(paren_group_re,
         <<"(">> \o new_forward_decl_args(args_tuple_list, 1) \o <<")">>,
         line)

(***************************************************************************)
(* The state of a run.                                                     *)
(*   prompt_confirmation, new_extension, git_move, global_function_dict    *)
(*       the class attributes of UnObsolizer (new_extension is the empty   *)
(*       sequence when the option is absent: None and '' are both false);  *)
(*   files, parsers   the instance attributes of UnObsolizer: the paths    *)
(*       and one FileParser record per path;                               *)
(*   fs   the file system: a function from the paths that exist to their   *)
(*       content, a sequence of lines;                                     *)
(*   pc   the position in parse_files: the loop (1: convert_func_decl,     *)
(*       2: convert_forward_decl, 0: ended), the parser, the place in the  *)
(*       method and the number of lines operate_on_file has handled;       *)
(* History, kept to state the properties of a run:                         *)
(*   fs0   the file system when the run started;                           *)
(*   progress   for each parser, how far its two methods have come: "new", *)
(*       "sweep1" (convert_func_decl running), "swept1" (it returned),     *)
(*       "sweep2" (convert_forward_decl running), "swept2" (it returned);  *)
(*   declined   whether some prompt of the run was answered 'n';           *)
(*   last   a record of the step taken last: the handler, the parser, the  *)
(*       line handled, the branch taken, the lines written to the output   *)
(*       file, the answer to the prompt and whether the prompt was shown.  *)
(***************************************************************************)
VARIABLES prompt_confirmation, new_extension, git_move, global_function_dict,
          files, parsers, fs, pc, fs0, progress, declined, last

vars == << prompt_confirmation, new_extension, git_move, global_function_dict,
           files, parsers, fs, pc, fs0, progress, declined, last >>

\* What no step of parse_files changes.
fixed == << prompt_confirmation, new_extension, git_move, files, fs0 >>

\* The value of an attribute not set yet.
Unset == << >>

\* FileParser.__init__
NewParser(input_file_name) ==
  [ current_state |-> SEARCH_FOR_FUNC,
    function_name |-> << >>,
    function_args |-> << >>,
    previous_line |-> << >>,
    function_args_count |-> 0,
    function_dict |-> << >>,
    function_ret_type |-> << >>,
    function_is_global |-> FALSE,
    accumulated_lines |-> << >>,
    input_file_name |-> input_file_name,
    temp_file_name |-> Unset,
    output_file_name |-> Unset ]

\* FileParser.reset_state
reset_state(self) ==
  [ self EXCEPT !.current_state = SEARCH_FOR_FUNC,
                !.accumulated_lines = << >>,
                !.function_name = << >>,
                !.function_args = << >>,
                !.function_ret_type = << >>,
                !.function_args_count = 0 ]

\* '{}.bak'.format(name), '{}.tmp'.format(name)
BackupName(name) == name \o <<".", "b", "a", "k">>

TempName(name) == name \o <<".", "t", "m", "p">>

\* The output path convert_func_decl computes.
OutputName(name, ext) ==
  IF Len(ext) > 0
    THEN LET no_ext_name == re_search(file_ext_re, name)
         IN IF Matched(no_ext_name)
              THEN no_ext_name.groups["name"] \o <<".">> \o ext
              ELSE name
    ELSE name

(***************************************************************************)
(* File operations.  A file's content is the sequence of the lines         *)
(* written; every string the program writes is empty or one line.          *)
(***************************************************************************)
Exists(path) == path \in DOMAIN fs

\* file.write(s) on a content
WriteStr(content, s) == IF Len(s) = 0 THEN content ELSE Append(content, s)

\* file.writelines(lines) on a content
WriteLines(content, lines) == content \o lines

\* shutil.copyfile(src, dst) and open(path, 'w+') on a file system
CopyFile(f, src, dst) == (dst :> f[src]) @@ f

Truncate(f, path) == (path :> << >>) @@ f

\* os.remove(path)
Remove(f, path) == [q \in (DOMAIN f) \ {path} |-> f[q]]

\* shutil.move(src, dst), and git mv src dst when it succeeds: a rename
Move(f, src, dst) ==
  IF src = dst THEN f ELSE Remove((dst :> f[src]) @@ f, src)

(***************************************************************************)
(* Positions of parse_files.                                               *)
(***************************************************************************)
At(loop, p, at, n) == [loop |-> loop, p |-> p, at |-> at, n |-> n]

\* The run has ended: normally, by exit(1), or by an exception no one catches.
Done == At(0, 0, "done", 0)

Fatal == At(0, 0, "fatal", 0)

Error == At(0, 0, "error", 0)

\* A single loop that runs both methods on a parser before the next parser.
AfterParserInterleaved(loop, p) ==
  IF loop = 1 THEN At(2, p, "open", 0)
  ELSE IF p < Len(parsers) THEN At(1, p + 1, "open", 0)
  ELSE Done

\* The position after parser p has run the method of loop `loop`.
AfterParser(loop, p) ==
  IF p < Len(parsers) THEN At(loop, p + 1, "open", 0)
  ELSE IF loop = 1 /\ Len(parsers) > 0 THEN At(2, 1, "open", 0)
  ELSE Done

Step(op, p, line, branch, wrote, answer, asked) ==
  [op |-> op, p |-> p, line |-> line, branch |-> branch, wrote |-> wrote,
   answer |-> answer, asked |-> asked]

\* A step of convert_func_decl or convert_forward_decl outside operate_on_file.
MethodStep(op, branch) == Step(op, pc.p, << >>, branch, << >>, "y", FALSE)

\* The answers input('y/n [y]') may return; 'n' declines, all else accepts.
Answers == {"y", "n", ""}

\* confirmation = 'y', replaced by what input() returns when the prompt is shown.
Confirmations(asked) == IF asked THEN Answers ELSE {"y"}

(***************************************************************************)
(* Input texts: lines of C source.                                         *)
(***************************************************************************)
\* int\n
RetInt == <<"i", "n", "t", "\n">>

\* static int\n
RetStaticInt == <<"s", "t", "a", "t", "i", "c", " ", "i", "n", "t", "\n">>

\* void\n
RetVoid == <<"v", "o", "i", "d", "\n">>

\* f(a)\n
HeaderF1 == <<"f", "(", "a", ")", "\n">>

\* f(a, b)\n
HeaderF2 == <<"f", "(", "a", ",", " ", "b", ")", "\n">>

\* f(a, b, c)\n
HeaderF3 == <<"f", "(", "a", ",", " ", "b", ",", " ", "c", ")", "\n">>

\* bar()\n
HeaderBar == <<"b", "a", "r", "(", ")", "\n">>

\* foo(x)\n
HeaderFoo == <<"f", "o", "o", "(", "x", ")", "\n">>

\* int a;\n
ArgIntA == <<"i", "n", "t", " ", "a", ";", "\n">>

\* char *b;\n
ArgCharPtrB == <<"c", "h", "a", "r", " ", "*", "b", ";", "\n">>

\* float c;\n
ArgFloatC == <<"f", "l", "o", "a", "t", " ", "c", ";", "\n">>

\* int x;\n
ArgIntX == <<"i", "n", "t", " ", "x", ";", "\n">>

\* char *x;\n
ArgCharPtrX == <<"c", "h", "a", "r", " ", "*", "x", ";", "\n">>

\* {\n
Brace == <<"{", "\n">>

\* \n
Blank == <<"\n">>

\* x = 1;\n
Junk == <<"x", " ", "=", " ", "1", ";", "\n">>

\* int f();\n
FwdF == <<"i", "n", "t", " ", "f", "(", ")", ";", "\n">>

\* static int f();\n
FwdStaticF == <<"s", "t", "a", "t", "i", "c", " ", "i", "n", "t", " ", "f", "(", ")", ";", "\n">>

\* void foo();\n
FwdFoo == <<"v", "o", "i", "d", " ", "f", "o", "o", "(", ")", ";", "\n">>

\* static void foo();\n
FwdStaticFoo == <<"s", "t", "a", "t", "i", "c", " ", "v", "o", "i", "d", " ", "f", "o", "o", "(", ")", ";", "\n">>

\* The paths of a run, and the extension --ext may name.
PathA == <<"a", ".", "c">>

PathB == <<"b", ".", "c">>

ExtCpp == <<"c", "p", "p">>

NoExt == << >>

\* Every line of the input texts, and the empty previous_line of a new parser.
InputLines ==
  { RetInt, RetStaticInt, RetVoid, HeaderF1, HeaderF2, HeaderF3, HeaderBar,
    HeaderFoo, ArgIntA, ArgCharPtrB, ArgFloatC, ArgIntX, ArgCharPtrX, Brace,
    Blank, Junk, FwdF, FwdStaticF, FwdFoo, FwdStaticFoo, << >> }

(***************************************************************************)
(* re.search(pattern, line) for each pattern of FileParser.  The matches   *)
(* of the input lines are tabulated once; any other line (a header the     *)
(* program wrote) is matched when it is met.                               *)
(***************************************************************************)
Tabulate(rs) == [line \in InputLines |-> re_search(rs, line)]

return_value_table == Tabulate(return_value_re)

function_name_table == Tabulate(function_name_re)

function_arg_table == Tabulate(function_arg_re)

function_begin_table == Tabulate(function_begin_re)

forward_declaration_table == Tabulate(forward_declaration_re)

whitespace_table == Tabulate(whitespace_re)

Lookup(table, rs, line) ==
  IF line \in DOMAIN table THEN table[line] ELSE re_search(rs, line)

return_value_match(line) == Lookup(return_value_table, return_value_re, line)

function_name_match(line) == Lookup(function_name_table, function_name_re, line)

function_arg_match(line) == Lookup(function_arg_table, function_arg_re, line)

function_begin_match(line) == Lookup(function_begin_table, function_begin_re, line)

forward_declaration_match(line) ==
  Lookup(forward_declaration_table, forward_declaration_re, line)

whitespace_match(line) == Lookup(whitespace_table, whitespace_re, line)

(***************************************************************************)
(* The handlers of sweep 1 as functions of the parser record and the line: *)
(* each yields the parser record after the call (operate_on_file's         *)
(* previous_line = line included), the lines written to the output file,   *)
(* the global table and the branch taken.                                  *)
(***************************************************************************)
Outcome(self, wrote, global, branch) ==
  [self |-> self, wrote |-> wrote, global |-> global, branch |-> branch]

\* A write that skips the lines made of a newline alone.
PassThroughNonBlank(line) ==
  IF line = <<"\n">> THEN << >> ELSE WriteStr(<< >>, line)

\* self.output_file.write(line) of a line that is passed through.
PassThrough(line) == WriteStr(<< >>, line)

\* search_for_func: the expected number of arguments.
ExpectedArgs(func_name_match, function_args_count) ==
  IF HasGroup(func_name_match, "args")
    THEN SplitCount(func_name_match.groups["args"])
    ELSE function_args_count

\* C's own default: a function with no return-type line is external.
IsGlobalByDefault(ret_value_match) ==
  IF Matched(ret_value_match)
    THEN IF HasGroup(ret_value_match, "static") THEN FALSE ELSE TRUE
    ELSE TRUE

\* search_for_func: the visibility decided from the previous line.
IsGlobal(ret_value_match) ==
  IF Matched(ret_value_match)
    THEN IF HasGroup(ret_value_match, "static") THEN FALSE ELSE TRUE
    ELSE FALSE

\* search_for_func: 'int\n' when the previous line is no return-type line.
RetType(ret_value_match, function_ret_type) ==
  IF Matched(ret_value_match) THEN function_ret_type
  ELSE <<"i", "n", "t", "\n">>

\* A parser that reads arguments after every header.
StateAfterHeaderReading(function_args_count) == READ_ARGUMENTS

\* search_for_func: the state entered after a header.
StateAfterHeader(function_args_count) ==
  IF function_args_count = 0 THEN REPLACE_FUNCTION ELSE READ_ARGUMENTS

search_for_func(self, line, global) ==
  LET func_name_match == function_name_match(line)
      ret_value_match == return_value_match(self.previous_line)
      count == ExpectedArgs(func_name_match, self.function_args_count)
  IN IF Matched(func_name_match)
       THEN Outcome([self EXCEPT
                       !.accumulated_lines = Append(@, line),
                       !.function_args_count = count,
                       !.function_is_global = IsGlobal(ret_value_match),
                       !.function_ret_type = RetType(ret_value_match, @),
                       !.function_name = func_name_match.groups["name"],
                       !.current_state = StateAfterHeader(count),
                       !.previous_line = line],
                    << >>, global, "header")
       ELSE Outcome([reset_state(self) EXCEPT !.previous_line = line],
                    PassThrough(line), global, "pass")

\* read_arguments: the tuple appended for an argument-declaration line.
ArgTuple(arg_match) ==
  << arg_match.groups["type"], arg_match.groups["name"],
     IF HasGroup(arg_match, "pointer") THEN TRUE ELSE FALSE >>

\* An argument put in front of the list instead of at its end.
PrependArg(function_args, arg) == << arg >> \o function_args

\* read_arguments: self.function_args.append(...)
AppendArg(function_args, arg) == Append(function_args, arg)

\* A flush that misses the line accumulated last.
write_accumulator_short(self) ==
  WriteLines(<< >>, SubSeq(self.accumulated_lines, 1,
                           Len(self.accumulated_lines) - 1))

\* FileParser.write_accumulator
write_accumulator(self) == WriteLines(<< >>, self.accumulated_lines)

\* A parser that waits for the brace as soon as one argument is read.
StateAfterFirstArg(function_args, function_args_count) == REPLACE_FUNCTION

\* The largest int CPython keeps a single object for: two equal ints that
\* were computed apart are the same object up to it, and two objects above.
SmallIntMax == 256

\* a is b, for the results a and b of two computations of an int
IntIs(a, b) == a = b /\ a <= SmallIntMax

\* read_arguments: the state after an argument was appended.
StateAfterArg(function_args, function_args_count) ==
  IF IntIs(Len(function_args), function_args_count)
    THEN REPLACE_FUNCTION ELSE READ_ARGUMENTS

read_arguments(self, line, global) ==
  LET accumulated == [self EXCEPT !.accumulated_lines = Append(@, line)]
      arg_match == function_arg_match(line)
      args == AppendArg(self.function_args, ArgTuple(arg_match))
  IN IF Matched(arg_match)
       THEN Outcome([accumulated EXCEPT
                       !.function_args = args,
                       !.current_state =
                           StateAfterArg(args, self.function_args_count),
                       !.previous_line = line],
                    << >>, global, "argument")
       ELSE IF Matched(whitespace_match(line))
         THEN Outcome([accumulated EXCEPT !.previous_line = line],
                      << >>, global, "blank")
         ELSE Outcome([reset_state(accumulated) EXCEPT !.previous_line = line],
                      write_accumulator(accumulated), global, "abandon")

\* replace_function: what is written when the rewrite is declined.
DeclinedText(self) ==
  WriteLines(WriteStr(<< >>, self.function_ret_type), self.accumulated_lines)

\* replace_function: what is written when the rewrite is accepted.
AcceptedText(self) ==
  WriteStr(<< >>, function_declaration(self.function_name, self.function_args))

\* A table rebuilt from the function recorded last.
RecordGlobalAlone(self, global) ==
  IF self.function_is_global
    THEN (self.function_name :> self.function_args)
    ELSE global

\* A table that takes the first function of the run and no other.
RecordGlobalFirstOnly(self, global) ==
  IF self.function_is_global /\ global = << >>
    THEN (self.function_name :> self.function_args)
    ELSE global

\* replace_function: the tables after an accepted rewrite.
RecordGlobal(self, global) ==
  IF self.function_is_global
    THEN (self.function_name :> self.function_args) @@ global
    ELSE global

RecordStatic(self) ==
  IF self.function_is_global
    THEN self.function_dict
    ELSE (self.function_name :> self.function_args) @@ self.function_dict

\* A prompt that takes the empty answer for a refusal.
DeclinedOnEmpty(confirmation) == confirmation \in {"n", ""}

\* if confirmation == 'n'
Declined(confirmation) == confirmation = "n"

replace_function(self, line, confirmation, global) ==
  IF Matched(function_begin_match(line))
    THEN IF Declined(confirmation)
           THEN Outcome([reset_state(self) EXCEPT !.previous_line = line],
                        WriteStr(DeclinedText(self), line), global, "declined")
           ELSE Outcome([reset_state([self EXCEPT
                                        !.function_dict = RecordStatic(self)])
                           EXCEPT !.previous_line = line],
                        WriteStr(AcceptedText(self), line),
                        RecordGlobal(self, global), "accepted")
    ELSE IF Matched(whitespace_match(line))
      THEN Outcome([self EXCEPT !.previous_line = line], << >>, global, "blank")
      ELSE Outcome([reset_state(self) EXCEPT !.previous_line = line],
                   WriteStr(WriteLines(<< >>, self.accumulated_lines), line),
                   global, "abandon")

(***************************************************************************)
(* declaration_converter, the handler of sweep 2.                          *)
(***************************************************************************)
\* A lookup that ignores the global table.
LookupTableStaticOnly(self, forward_decl_match, global) == self.function_dict

\* A lookup in one file-scoped table shared by all parsers.
LookupTableAnyFile(self, forward_decl_match, global) ==
  IF HasGroup(forward_decl_match, "static")
    THEN [n \in UNION { DOMAIN parsers[i].function_dict : i \in DOMAIN parsers } |->
            parsers[CHOOSE i \in DOMAIN parsers :
                      n \in DOMAIN parsers[i].function_dict].function_dict[n]]
    ELSE global

\* The table a forward declaration is looked up in.
LookupTable(self, forward_decl_match, global) ==
  IF HasGroup(forward_decl_match, "static")
    THEN self.function_dict ELSE global

declaration_converter(self, line, confirmation, global) ==
  LET forward_decl_match == forward_declaration_match(line)
      func_name == forward_decl_match.groups["name"]
      table == LookupTable(self, forward_decl_match, global)
      after == [self EXCEPT !.previous_line = line]
  IN IF Matched(forward_decl_match)
       THEN IF func_name \notin DOMAIN table
              THEN Outcome(after, PassThrough(line), global, "unknown")
              ELSE IF Declined(confirmation)
                THEN Outcome(after, PassThrough(line), global, "declined")
                ELSE Outcome(after,
                             WriteStr(<< >>, repl_line(table[func_name], line)),
                             global, "accepted")
       ELSE Outcome(after, PassThrough(line), global, "pass")

(***************************************************************************)
(* The steps of a run.  parse_files calls convert_func_decl on every       *)
(* parser and then convert_forward_decl on every parser; each of the two   *)
(* methods is an opening step, one step per line handled by                *)
(* operate_on_file, and a closing step.                                    *)
(***************************************************************************)
\* The lines operate_on_file iterates over in the current method.
ReadPath == IF pc.loop = 1 THEN BackupName(parsers[pc.p].input_file_name)
            ELSE parsers[pc.p].temp_file_name

AtLine(loop) ==
  /\ pc.loop = loop
  /\ pc.at = "line"
  /\ pc.n < Len(fs[ReadPath])

CurrentLine == fs[ReadPath][pc.n + 1]

\* The effect of one handler call on the state.
Apply(op, out, confirmation, asked) ==
  /\ parsers' = [parsers EXCEPT ![pc.p] = out.self]
  /\ fs' = [fs EXCEPT ![parsers[pc.p].output_file_name] = WriteLines(@, out.wrote)]
  /\ global_function_dict' = out.global
  /\ pc' = [pc EXCEPT !.n = @ + 1]
  /\ declined' = (declined \/ (asked /\ Declined(confirmation)))
  /\ last' = Step(op, pc.p, CurrentLine, out.branch, out.wrote, confirmation, asked)
  /\ UNCHANGED << fixed, progress >>

\* convert_func_decl up to the call of operate_on_file
ConvertFuncDeclOpen ==
  /\ pc.loop = 1
  /\ pc.at = "open"
  /\ LET self == parsers[pc.p]
         input == self.input_file_name
         named == [self EXCEPT
                     !.temp_file_name = TempName(input),
                     !.output_file_name = OutputName(input, new_extension)]
     IN /\ parsers' = [parsers EXCEPT ![pc.p] = named]
        /\ IF Exists(input)
             THEN /\ fs' = Truncate(CopyFile(fs, input, BackupName(input)),
                                    named.output_file_name)
                  /\ pc' = At(1, pc.p, "line", 0)
                  /\ last' = MethodStep("convert_func_decl", "open")
             ELSE /\ fs' = fs
                  /\ pc' = Error
                  /\ last' = MethodStep("convert_func_decl", "error")
  /\ progress' = [progress EXCEPT ![pc.p] = "sweep1"]
  /\ UNCHANGED << fixed, global_function_dict, declined >>

\* function_converter in state SEARCH_FOR_FUNC
SearchForFuncStep ==
  /\ AtLine(1)
  /\ parsers[pc.p].current_state = SEARCH_FOR_FUNC
  /\ Apply("search_for_func",
           search_for_func(parsers[pc.p], CurrentLine, global_function_dict),
           "y", FALSE)

\* function_converter in state READ_ARGUMENTS
ReadArgumentsStep ==
  /\ AtLine(1)
  /\ parsers[pc.p].current_state = READ_ARGUMENTS
  /\ Apply("read_arguments",
           read_arguments(parsers[pc.p], CurrentLine, global_function_dict),
           "y", FALSE)

\* function_converter in state REPLACE_FUNCTION; the prompt is shown for a
\* brace line only.
ReplaceFunctionStep ==
  /\ AtLine(1)
  /\ parsers[pc.p].current_state = REPLACE_FUNCTION
  /\ LET asked == /\ prompt_confirmation
                   /\ Matched(function_begin_match(CurrentLine))
     IN \E confirmation \in Confirmations(asked) :
          Apply("replace_function",
                replace_function(parsers[pc.p], CurrentLine, confirmation,
                                 global_function_dict),
                confirmation, asked)

\* convert_func_decl after operate_on_file
ConvertFuncDeclClose ==
  /\ pc.loop = 1
  /\ pc.at = "line"
  /\ pc.n = Len(fs[ReadPath])
  /\ LET self == parsers[pc.p]
     IN fs' = CopyFile(fs, self.output_file_name, self.temp_file_name)
  /\ pc' = AfterParser(1, pc.p)
  /\ progress' = [progress EXCEPT ![pc.p] = "swept1"]
  /\ last' = MethodStep("convert_func_decl", "close")
  /\ UNCHANGED << fixed, global_function_dict, parsers, declined >>

\* convert_forward_decl up to the call of operate_on_file
ConvertForwardDeclOpen ==
  /\ pc.loop = 2
  /\ pc.at = "open"
  /\ LET self == parsers[pc.p]
     IN /\ fs' = Truncate(fs, self.output_file_name)
        /\ IF Exists(self.temp_file_name)
             THEN /\ pc' = At(2, pc.p, "line", 0)
                  /\ last' = MethodStep("convert_forward_decl", "open")
             ELSE /\ pc' = Error
                  /\ last' = MethodStep("convert_forward_decl", "error")
  /\ progress' = [progress EXCEPT ![pc.p] = "sweep2"]
  /\ UNCHANGED << fixed, global_function_dict, parsers, declined >>

\* The prompt of declaration_converter is shown for a forward declaration
\* whose name is in the table it is looked up in.
AsksForDeclaration(self, line, global) ==
  LET forward_decl_match == forward_declaration_match(line)
  IN /\ Matched(forward_decl_match)
     /\ forward_decl_match.groups["name"]
          \in DOMAIN LookupTable(self, forward_decl_match, global)

DeclarationConverterStep ==
  /\ AtLine(2)
  /\ LET asked == /\ prompt_confirmation
                   /\ AsksForDeclaration(parsers[pc.p], CurrentLine,
                                         global_function_dict)
     IN \E confirmation \in Confirmations(asked) :
          Apply("declaration_converter",
                declaration_converter(parsers[pc.p], CurrentLine, confirmation,
                                      global_function_dict),
                confirmation, asked)

(***************************************************************************)
(* convert_forward_decl after operate_on_file: the temporary file is       *)
(* removed; with a new extension the input path is removed and, with       *)
(* git_move, the output is moved back to the input path and `git mv`       *)
(* renames it again; ret_val is what that command returns.  A path that    *)
(* does not exist raises an exception, which ends the run.                 *)
(***************************************************************************)
ConvertForwardDeclClose ==
  /\ pc.loop = 2
  /\ pc.at = "line"
  /\ pc.n = Len(fs[ReadPath])
  /\ \E ret_val \in (IF Len(new_extension) > 0 /\ git_move THEN {0, 1} ELSE {0}) :
       LET self == parsers[pc.p]
           input == self.input_file_name
           output == self.output_file_name
           fs1 == Remove(fs, self.temp_file_name)
           fs2 == Remove(fs1, input)
           fs3 == Move(fs2, output, input)
           fs4 == Move(fs3, input, output)
           ended(f, at, branch) ==
             /\ fs' = f
             /\ pc' = at
             /\ progress' = [progress EXCEPT ![pc.p] =
                               IF branch = "close" THEN "swept2" ELSE @]
             /\ last' = MethodStep("convert_forward_decl", branch)
       IN IF Len(new_extension) = 0
            THEN ended(fs1, AfterParser(2, pc.p), "close")
          ELSE IF input \notin DOMAIN fs1
            THEN ended(fs1, Error, "error")
          ELSE IF ~git_move
            THEN ended(fs2, AfterParser(2, pc.p), "close")
          ELSE IF output \notin DOMAIN fs2
            THEN ended(fs2, Error, "error")
          ELSE IF ret_val # 0
            THEN ended(fs3, Fatal, "fatal")
          ELSE ended(fs4, AfterParser(2, pc.p), "close")
  /\ UNCHANGED << fixed, global_function_dict, parsers, declined >>

Next ==
  \/ ConvertFuncDeclOpen
  \/ SearchForFuncStep
  \/ ReadArgumentsStep
  \/ ReplaceFunctionStep
  \/ ConvertFuncDeclClose
  \/ ConvertForwardDeclOpen
  \/ DeclarationConverterStep
  \/ ConvertForwardDeclClose

(***************************************************************************)
(* Bounds of the inputs.                                                   *)
(***************************************************************************)
\* The longest file drawn line by line from Pool.
MaxLines == 3

\* The longest file list of a run over several files.
MaxFiles == 2

\* The lines short files are made of: one of each shape the parser tells
\* apart (return-type lines, headers with and without arguments, argument
\* declarations, brace, blank, other text, forward declaration).
Pool == { RetInt, RetStaticInt, HeaderF1, HeaderF2, HeaderBar, ArgIntA, Brace,
          Blank, Junk, FwdF }

\* All sequences over S of length at most n.
RECURSIVE SeqsUpTo(_, _)
SeqsUpTo(S, n) ==
  IF n = 0 THEN { << >> }
  ELSE LET shorter == SeqsUpTo(S, n - 1)
       IN shorter \cup { Append(q, x) : q \in shorter, x \in S }

\* Longer files: the scenarios of K&R definitions with several arguments,
\* with forward declarations before the definition, and of candidates that
\* are abandoned or still open at the end of the file.
ExampleFiles ==
  { << HeaderF3, ArgIntA, ArgCharPtrB, ArgFloatC, Brace >>,
    << RetInt, HeaderF2, ArgIntA, ArgCharPtrB, Brace >>,
    << HeaderF2, ArgIntA, Junk, Brace >>,
    << HeaderF2, ArgIntA, Blank, ArgCharPtrB, Blank, Brace >>,
    << FwdStaticF, RetStaticInt, HeaderF1, ArgIntA, Brace >>,
    << FwdF, RetInt, HeaderF1, ArgIntA, Brace >>,
    << FwdF, HeaderF1, ArgIntA, Brace >>,
    << RetInt, HeaderF2, ArgIntA, ArgCharPtrB >>,
    << RetInt, HeaderBar, Brace, RetInt, HeaderF1, ArgIntA, Brace, FwdF >> }

InputFiles == SeqsUpTo(Pool, MaxLines) \cup ExampleFiles

\* The files of runs over several files: definitions of foo (externally
\* visible, static, with another parameter) and declarations of foo.
RunFiles ==
  { << RetVoid, HeaderFoo, ArgIntX, Brace >>,
    << RetVoid, HeaderFoo, ArgCharPtrX, Brace >>,
    << RetStaticInt, HeaderFoo, ArgIntX, Brace, FwdStaticFoo >>,
    << FwdFoo, RetStaticInt, HeaderFoo, ArgCharPtrX, Brace >>,
    << RetInt, HeaderBar, Brace >>,
    << FwdFoo >>,
    << FwdStaticFoo, FwdFoo >>,
    << Junk >> }

FileLists == SeqsUpTo({PathA, PathB}, MaxFiles) \ { << >> }

Range(q) == { q[i] : i \in DOMAIN q }

(***************************************************************************)
(* The state after get_files_from_args: the options are set, self.files    *)
(* holds the paths and self.parsers one FileParser for each; the files     *)
(* named exist.  global_function_dict is the empty class attribute.        *)
(***************************************************************************)
InitWith(lists, contents) ==
  /\ prompt_confirmation \in BOOLEAN
  /\ new_extension \in {NoExt, ExtCpp}
  /\ git_move \in BOOLEAN
  /\ global_function_dict = << >>
  /\ files \in lists
  /\ parsers = [i \in DOMAIN files |-> NewParser(files[i])]
  /\ fs \in [Range(files) -> contents]
  /\ fs0 = fs
  /\ progress = [i \in DOMAIN files |-> "new"]
  /\ declined = FALSE
  /\ pc = IF Len(files) > 0 THEN At(1, 1, "open", 0) ELSE Done
  /\ last = Step("get_files_from_args", 0, << >>, "", << >>, "y", FALSE)

\* One file of any short content, or several files of a run.
Init ==
  \/ InitWith({ << PathA >> }, InputFiles)
  \/ InitWith(FileLists, RunFiles)

Spec == Init /\ [][Next]_vars

(***************************************************************************)
(* Properties.                                                             *)
(***************************************************************************)
\* The input of parser p, as sweep 1 reads it, and the output it writes.
InputOf(p) == fs[BackupName(parsers[p].input_file_name)]

OutputOf(p) == fs[parsers[p].output_file_name]

\* The final output path of a file of the run.
FinalPath(path) == OutputName(path, new_extension)

Started2(i) == progress[i] \in {"sweep2", "swept2"}

Finished1(i) == progress[i] \in {"swept1", "sweep2", "swept2"}

\* No parser has started sweep 2 unless every parser has finished sweep 1.
BarrierHolds ==
  \A i, j \in DOMAIN progress : Started2(i) => Finished1(j)

(***************************************************************************)
(* C1.  In a run over any list of files, no file's sweep 2                 *)
(* (convert_forward_decl) starts before sweep 1 (convert_func_decl) has    *)
(* finished for every file, and no step taken while the second loop runs   *)
(* changes the global table: every sweep 2 reads the table as all the      *)
(* first sweeps left it.                                                   *)
(***************************************************************************)
C1_Barrier ==
  [][ /\ BarrierHolds'
      /\ (pc.loop = 2 => global_function_dict' = global_function_dict) ]_vars

\* The first file of two is in sweep 2 and has just had a declaration filled
\* in from a definition that stands in the second file.
C1_Witness ==
  /\ Len(files) = 2
  /\ files[1] # files[2]
  /\ pc.loop = 2
  /\ pc.p = 1
  /\ last.op = "declaration_converter"
  /\ last.branch = "accepted"
  /\ fs0[files[1]] = << FwdFoo >>
  /\ BarrierHolds

\* void foo(int x);\n
FwdFooFilled ==
  <<"v", "o", "i", "d", " ", "f", "o", "o", "(", "i", "n", "t", " ", "x", ")",
    ";", "\n">>

DefFooFile == << RetVoid, HeaderFoo, ArgIntX, Brace >>

\* Some header of the content named `name` follows a return-type line
\* without `static`: the content defines `name` as externally visible.
DefinesGlobal(content, name) ==
  \E k \in 2..Len(content) :
    /\ Matched(function_name_match(content[k]))
    /\ function_name_match(content[k]).groups["name"] = name
    /\ Matched(return_value_match(content[k - 1]))
    /\ ~HasGroup(return_value_match(content[k - 1]), "static")

\* The run is over the two files a and b, in either order; a is the K&R
\* definition of the externally visible foo with the parameter `int x;`,
\* b holds the line `void foo();` and no externally visible definition of foo.
CrossFileCase(a, b) ==
  /\ a # b
  /\ files \in { << a, b >>, << b, a >> }
  /\ fs0[a] = DefFooFile
  /\ FwdFoo \in Range(fs0[b])
  /\ ~DefinesGlobal(fs0[b], <<"f", "o", "o">>)

(***************************************************************************)
(* C2.  Cross-file backfill: when a run over the files A and B, in either  *)
(* order and with no rewrite declined, has ended, where A defines the      *)
(* externally visible foo K&R-style with the parameter `int x;` and B      *)
(* holds the line `void foo();`, B's final output holds                    *)
(* `void foo(int x);` in place of that line.                               *)
(***************************************************************************)
C2_CrossFileBackfill ==
  (pc = Done /\ ~declined) =>
    \A a, b \in Range(files) :
      CrossFileCase(a, b) =>
        /\ Exists(FinalPath(b))
        /\ FwdFooFilled \in Range(fs[FinalPath(b)])
        /\ FwdFoo \notin Range(fs[FinalPath(b)])

\* Such a run has ended with the declaring file first in the list and the
\* prompts shown and accepted.
C2_Witness ==
  /\ pc = Done
  /\ ~declined
  /\ prompt_confirmation
  /\ files = << PathA, PathB >>
  /\ CrossFileCase(PathB, PathA)
  /\ FwdFooFilled \in Range(fs[FinalPath(PathA)])

(***************************************************************************)
(* Steps of sweep 1, described from the state before the step and the line *)
(* that is read.                                                           *)
(***************************************************************************)
\* The parser whose method is running.
Self == parsers[pc.p]

\* The step reads a brace-open line in REPLACE_FUNCTION.
BraceStep ==
  /\ AtLine(1)
  /\ Self.current_state = REPLACE_FUNCTION
  /\ Matched(function_begin_match(CurrentLine))

\* The rewrite offered at a brace step is declined (the prompt was shown and
\* answered 'n'), or it is accepted.
DeclinedStep == BraceStep /\ last'.asked /\ last'.answer = "n"

AcceptedStep == BraceStep /\ ~(last'.asked /\ last'.answer = "n")

\* The place of the candidate's header line in the input: the accumulator
\* holds the lines from the header on, blank lines read in REPLACE_FUNCTION
\* excepted, and the header is its first line.
RECURSIVE HeaderIndexFrom(_, _)
HeaderIndexFrom(input, k) ==
  IF k <= 1 THEN k
  ELSE IF input[k] = Self.accumulated_lines[1]
            /\ Matched(function_name_match(input[k]))
    THEN k
    ELSE HeaderIndexFrom(input, k - 1)

HeaderIndex == HeaderIndexFrom(InputOf(pc.p), pc.n)

\* The candidate's span in the input: from its header line to the line read.
Span == SubSeq(InputOf(pc.p), HeaderIndex, pc.n + 1)

\* The lines the step writes to the output file.
WrittenBy(q) ==
  /\ Len(fs[parsers[pc.p].output_file_name]) <= Len(fs'[parsers[pc.p].output_file_name])
  /\ fs'[parsers[pc.p].output_file_name] = fs[parsers[pc.p].output_file_name] \o q

(***************************************************************************)
(* C3.  Round trip on decline: when a candidate of sweep 1 reaches its     *)
(* brace line and the prompt is answered 'n', the text written for the     *)
(* span, from the header line to the brace line, is the input text of      *)
(* that span: no line added, dropped or changed.                           *)
(***************************************************************************)
C3_DeclineRoundTrip == [][ DeclinedStep => WrittenBy(Span) ]_vars

\* The argument-declaration lines of a span, in the order they were read.
ArgLines(span) ==
  SelectSeq(Tail(span), LAMBDA l : Matched(function_arg_match(l)))

\* The text of one parameter, from its argument-declaration line: with the
\* pointer marker before the name (`char *b`), or after the type (`char* b`).
ParamStarName(l) ==
  LET m == function_arg_match(l)
  IN m.groups["type"] \o <<" ">>
       \o (IF HasGroup(m, "pointer") THEN <<"*">> ELSE << >>) \o m.groups["name"]

ParamTypeStar(l) ==
  LET m == function_arg_match(l)
  IN m.groups["type"] \o (IF HasGroup(m, "pointer") THEN <<"*">> ELSE << >>)
       \o <<" ">> \o m.groups["name"]

\* name(p1, p2, ...) and a newline, for the header line and the parameter texts.
RECURSIVE CommaJoined(_)
CommaJoined(texts) ==
  IF Len(texts) = 0 THEN << >>
  ELSE IF Len(texts) = 1 THEN texts[1]
  ELSE texts[1] \o <<",", " ">> \o CommaJoined(Tail(texts))

HeaderText(header_line, texts) ==
  function_name_match(header_line).groups["name"]
    \o <<"(">> \o CommaJoined(texts) \o <<")", "\n">>

\* The example of the parameter-order property.
OrderExample == << HeaderF3, ArgIntA, ArgCharPtrB, ArgFloatC, Brace >>

\* f(int a, char *b, float c)\n
OrderHeaderStarName ==
  <<"f", "(", "i", "n", "t", " ", "a", ",", " ", "c", "h", "a", "r", " ", "*", "b", ",", " ", "f", "l", "o", "a", "t", " ", "c", ")", "\n">>

\* f(int a, char* b, float c)\n
OrderHeaderTypeStar ==
  <<"f", "(", "i", "n", "t", " ", "a", ",", " ", "c", "h", "a", "r", "*", " ", "b", ",", " ", "f", "l", "o", "a", "t", " ", "c", ")", "\n">>

(***************************************************************************)
(* C4, as claimed.  For the header `f(a, b, c)` followed by `int a;`,      *)
(* `char *b;`, `float c;` and a brace line, with the rewrite accepted, the *)
(* header line written is exactly `f(int a, char *b, float c)`; in general *)
(* the rewritten parameters appear in the order in which their             *)
(* argument-declaration lines were read.                                   *)
(***************************************************************************)
C4_Original ==
  [][ AcceptedStep =>
        /\ WrittenBy(<< HeaderText(Span[1],
                                   [k \in DOMAIN ArgLines(Span) |->
                                      ParamStarName(ArgLines(Span)[k])]),
                        CurrentLine >>)
        /\ (Span = OrderExample =>
              WrittenBy(<< OrderHeaderStarName, CurrentLine >>)) ]_vars

(***************************************************************************)
(* C4, amended.  The header line written for that example is exactly       *)
(* `f(int a, char* b, float c)`: the pointer marker follows the type and   *)
(* a space precedes the name.  In general the header written is the name,  *)
(* and in parentheses the parameters `type name` or `type* name`, joined   *)
(* by `, `, in the order their argument-declaration lines were read.       *)
(***************************************************************************)
C4_ParameterOrder ==
  [][ AcceptedStep =>
        /\ WrittenBy(<< HeaderText(Span[1],
                                   [k \in DOMAIN ArgLines(Span) |->
                                      ParamTypeStar(ArgLines(Span)[k])]),
                        CurrentLine >>)
        /\ (Span = OrderExample =>
              WrittenBy(<< OrderHeaderTypeStar, CurrentLine >>)) ]_vars

\* The example's rewrite has been accepted and its header written.
C4_Witness ==
  /\ last.op = "replace_function"
  /\ last.branch = "accepted"
  /\ InputOf(last.p) = OrderExample
  /\ OutputOf(last.p) = << OrderHeaderTypeStar, Brace >>

\* The line immediately preceding the header of the span; the empty string
\* when the header is the first line of the file.
PrecedingLine ==
  IF HeaderIndex > 1 THEN InputOf(pc.p)[HeaderIndex - 1] ELSE << >>

\* The name in the header of the span, and the signature its
\* argument-declaration lines give.
SpanName == function_name_match(Span[1]).groups["name"]

SpanSignature ==
  [k \in DOMAIN ArgLines(Span) |-> ArgTuple(function_arg_match(ArgLines(Span)[k]))]

\* The step records name |-> sig in the global table alone, or in the running
\* parser's file-scoped table alone.
OnlyGlobal(name, sig) ==
  /\ global_function_dict' = (name :> sig) @@ global_function_dict
  /\ \A i \in DOMAIN parsers : parsers'[i].function_dict = parsers[i].function_dict

OnlyFileScoped(name, sig) ==
  /\ global_function_dict' = global_function_dict
  /\ parsers'[pc.p].function_dict = (name :> sig) @@ Self.function_dict
  /\ \A i \in DOMAIN parsers \ {pc.p} :
       parsers'[i].function_dict = parsers[i].function_dict

(***************************************************************************)
(* C5.  Visibility classification: a candidate confirmed in sweep 1 is     *)
(* recorded in exactly one table: the file-scoped table alone when the     *)
(* line immediately preceding the header is a return-type line with        *)
(* `static`, the global table alone when it is a return-type line without  *)
(* `static`, and the file-scoped table alone when it is no return-type     *)
(* line (or the header is the first line of the file).                     *)
(***************************************************************************)
C5_Visibility ==
  [][ AcceptedStep =>
        LET m == return_value_match(PrecedingLine)
        IN /\ (Matched(m) /\ HasGroup(m, "static")
                 => OnlyFileScoped(SpanName, SpanSignature))
           /\ (Matched(m) /\ ~HasGroup(m, "static")
                 => OnlyGlobal(SpanName, SpanSignature))
           /\ (~Matched(m) => OnlyFileScoped(SpanName, SpanSignature)) ]_vars

\* A run over two files has recorded foo in the global table from one file
\* and in the file-scoped table of the other, which holds a static foo.
C5_Witness ==
  /\ Len(files) = 2
  /\ last.op = "replace_function"
  /\ last.branch = "accepted"
  /\ last.p = 2
  /\ <<"f", "o", "o">> \in DOMAIN global_function_dict
  /\ <<"f", "o", "o">> \in DOMAIN parsers[2].function_dict
  /\ parsers[1].function_dict = << >>
  /\ global_function_dict[<<"f", "o", "o">>] # parsers[2].function_dict[<<"f", "o", "o">>]

\* The number of names in the parenthesized list of a header line.
NamesInHeader(header_line) ==
  LET m == function_name_match(header_line)
  IN IF HasGroup(m, "args") THEN CountChar(",", m.groups["args"]) + 1 ELSE 0

\* The step reads, in READ_ARGUMENTS, a line that is neither an argument
\* declaration nor blank.
RejectStep ==
  /\ AtLine(1)
  /\ Self.current_state = READ_ARGUMENTS
  /\ ~Matched(function_arg_match(CurrentLine))
  /\ ~Matched(whitespace_match(CurrentLine))

NoTableChanges ==
  /\ global_function_dict' = global_function_dict
  /\ \A i \in DOMAIN parsers : parsers'[i].function_dict = parsers[i].function_dict

(***************************************************************************)
(* C6.  Abandonment in READ_ARGUMENTS: when a header expecting N >= 1      *)
(* arguments is followed by fewer than N argument-declaration lines and    *)
(* then a line that is neither an argument declaration nor blank, sweep 1  *)
(* writes the accumulated lines (header, declarations, blank lines and the *)
(* rejecting line) verbatim and in order, returns to SEARCH_FOR_FUNC and   *)
(* adds no entry to either table.                                          *)
(***************************************************************************)
C6_Abandonment ==
  [][ RejectStep =>
        /\ NamesInHeader(Span[1]) >= 1
        /\ Len(ArgLines(Span)) < NamesInHeader(Span[1])
        /\ WrittenBy(Span)
        /\ parsers'[pc.p].current_state = SEARCH_FOR_FUNC
        /\ parsers'[pc.p].accumulated_lines = << >>
        /\ NoTableChanges ]_vars

\* A header expecting two arguments, one declaration and a rejecting line
\* have been written as they were read.
C6_Witness ==
  /\ last.op = "read_arguments"
  /\ last.branch = "abandon"
  /\ last.wrote = << HeaderF2, ArgIntA, Junk >>
  /\ parsers[last.p].current_state = SEARCH_FOR_FUNC
  /\ global_function_dict = << >>
  /\ parsers[last.p].function_dict = << >>

\* The step adds or changes an entry of a symbol table.
TablesChanged == ~NoTableChanges

\* The step of sweep 1 writes a line that is no line of the input.
WroteNewLine ==
  /\ AtLine(1)
  /\ \E k \in DOMAIN fs'[Self.output_file_name] :
       /\ k > Len(fs[Self.output_file_name])
       /\ fs'[Self.output_file_name][k] \notin Range(InputOf(pc.p))

(***************************************************************************)
(* C7.  Confirmation only at the brace: an entry is added to a symbol      *)
(* table, and a line that is not a line of the input is written by sweep   *)
(* 1, only by the step that reads a brace-open line in REPLACE_FUNCTION;   *)
(* at that step the number of collected parameters equals the number of    *)
(* names counted in the header's parenthesized list.                       *)
(***************************************************************************)
C7_OnlyAtBrace ==
  [][ /\ (TablesChanged \/ WroteNewLine) => BraceStep
      /\ BraceStep =>
           /\ Len(Self.function_args) = NamesInHeader(Span[1])
           /\ Len(ArgLines(Span)) = NamesInHeader(Span[1]) ]_vars

\* A function of two parameters has been confirmed at its brace line.
C7_Witness ==
  /\ last.op = "replace_function"
  /\ last.branch = "accepted"
  /\ InputOf(last.p) = << RetInt, HeaderF2, ArgIntA, ArgCharPtrB, Brace >>
  /\ Len(global_function_dict[<<"f">>]) = 2

\* No line of the content matches the function-header pattern.
NoHeader(content) ==
  \A k \in DOMAIN content : ~Matched(function_name_match(content[k]))

\* The file of the run keeps its content: its final output is its input.
Unchanged(path) ==
  /\ Exists(FinalPath(path))
  /\ fs[FinalPath(path)] = fs0[path]

(***************************************************************************)
(* C8, as claimed.  Idempotence on non-matching input: for a file none of  *)
(* whose lines matches the function-header pattern, the final output of    *)
(* the run for that file is identical to the input file.                   *)
(***************************************************************************)
C8_Original ==
  pc = Done =>
    \A path \in Range(files) : NoHeader(fs0[path]) => Unchanged(path)

\* The content declares, without `static`, a function of the table.
DeclaresKnown(content, table) ==
  \E k \in DOMAIN content :
    /\ Matched(forward_declaration_match(content[k]))
    /\ ~HasGroup(forward_declaration_match(content[k]), "static")
    /\ forward_declaration_match(content[k]).groups["name"] \in DOMAIN table

(***************************************************************************)
(* C8, amended.  For a file none of whose lines matches the                *)
(* function-header pattern and none of whose forward declarations without  *)
(* `static` names a function that the run recorded in the global table,    *)
(* the final output of the run for that file is identical to the input     *)
(* file.                                                                   *)
(***************************************************************************)
C8_Idempotence ==
  pc = Done =>
    \A path \in Range(files) :
      (NoHeader(fs0[path]) /\ ~DeclaresKnown(fs0[path], global_function_dict))
        => Unchanged(path)

\* A run that recorded a global function has ended, and the file of
\* declarations of another function is as it was.
C8_Witness ==
  /\ pc = Done
  /\ files = << PathA, PathB >>
  /\ DOMAIN global_function_dict = { <<"b", "a", "r">> }
  /\ fs0[PathB] = << FwdStaticFoo, FwdFoo >>
  /\ Unchanged(PathB)

\* The header line has an empty parameter list.
EmptyList(header_line) ==
  /\ Matched(function_name_match(header_line))
  /\ ~HasGroup(function_name_match(header_line), "args")

\* The last two lines of a content.
LastTwo(content) == SubSeq(content, Len(content) - 1, Len(content))

(***************************************************************************)
(* C9.  Zero-argument function: a header line `bar()` with an empty        *)
(* parameter list moves the parser from SEARCH_FOR_FUNC directly to        *)
(* REPLACE_FUNCTION, and when the next line is a brace-open line the       *)
(* header written is `bar()` with an empty parameter list, followed by the *)
(* brace line.                                                             *)
(***************************************************************************)
C9_ZeroArguments ==
  [][ /\ (AtLine(1) /\ Self.current_state = SEARCH_FOR_FUNC
            /\ EmptyList(CurrentLine))
         => parsers'[pc.p].current_state = REPLACE_FUNCTION
      /\ (BraceStep /\ Self.previous_line = HeaderBar)
         => /\ Len(fs'[Self.output_file_name]) >= Len(fs[Self.output_file_name]) + 2
            /\ LastTwo(fs'[Self.output_file_name]) = << HeaderBar, CurrentLine >>
            /\ AcceptedStep => WrittenBy(<< HeaderText(HeaderBar, << >>), CurrentLine >>)
    ]_vars

\* `bar()` and its brace have been read and written, with bar recorded.
C9_Witness ==
  /\ last.op = "replace_function"
  /\ last.branch = "accepted"
  /\ last.wrote = << HeaderBar, Brace >>
  /\ InputOf(last.p) = << RetInt, HeaderBar, Brace >>
  /\ global_function_dict = (<<"b", "a", "r">> :> << >>)

(***************************************************************************)
(* C10.  Global table monotonicity: across the whole run the set of names  *)
(* in the global table only grows - no step removes a name - and no step   *)
(* of a sweep 2 changes the table.                                         *)
(***************************************************************************)
C10_Monotonic ==
  [][ /\ DOMAIN global_function_dict \subseteq DOMAIN global_function_dict'
      /\ (pc.loop = 2 => global_function_dict' = global_function_dict) ]_vars

\* Sweep 2 runs with two names in the table, the first recorded before the
\* second.
C10_Witness ==
  /\ pc.loop = 2
  /\ pc.at = "line"
  /\ pc.n > 0
  /\ DOMAIN global_function_dict = { <<"b", "a", "r">>, <<"f">> }

\* The run has stopped short of its end: exit(1) or an uncaught exception.
Stopped == pc \in {Fatal, Error}

\* The backup of entry i holds what the file held when the run started.
BackupIntact(i) ==
  /\ Exists(BackupName(files[i]))
  /\ fs[BackupName(files[i])] = fs0[files[i]]

\* Entry i is between the end of its sweep 1 and the end of its sweep 2.
Staged(i) == progress[i] \in {"swept1", "sweep2"}

(***************************************************************************)
(* C11.  Backup and staging: for every entry of the file list, before its  *)
(* sweep 1 starts nothing has been written to the file; from then on, and  *)
(* at the end of the run, `<file>.bak` holds the content the file had when *)
(* the run started; and `<file>.tmp` exists exactly between the end of the *)
(* entry's sweep 1 and the end of its sweep 2.                             *)
(***************************************************************************)
C11_BackupAndStaging ==
  \A i \in DOMAIN files :
    /\ progress[i] = "new" => (Exists(files[i]) /\ fs[files[i]] = fs0[files[i]])
    /\ progress[i] # "new" => BackupIntact(i)
    /\ ~Stopped => (Exists(TempName(files[i])) <=> Staged(i))

(***************************************************************************)
(* Runs over one file with any new extension, the file's own among them,   *)
(* and over a file whose name has no extension.                            *)
(***************************************************************************)
\* --ext c
ExtC == <<"c">>

\* A file name without an extension.
PathNoExt == <<"R", "E", "A", "D", "M", "E">>

InitExt ==
  /\ prompt_confirmation \in BOOLEAN
  /\ new_extension \in {NoExt, ExtCpp, ExtC}
  /\ git_move \in BOOLEAN
  /\ global_function_dict = << >>
  /\ files \in { << PathA >>, << PathNoExt >> }
  /\ parsers = [i \in DOMAIN files |-> NewParser(files[i])]
  /\ fs \in [Range(files) -> InputFiles]
  /\ fs0 = fs
  /\ progress = [i \in DOMAIN files |-> "new"]
  /\ declined = FALSE
  /\ pc = At(1, 1, "open", 0)
  /\ last = Step("get_files_from_args", 0, << >>, "", << >>, "y", FALSE)

SpecExt == InitExt /\ [][Next]_vars

\* The step is the end of a sweep 2: every line of the temporary file has
\* been handled and convert_forward_decl goes on after operate_on_file.
CloseStep2 ==
  /\ pc.loop = 2
  /\ pc.at = "line"
  /\ pc.n = Len(fs[ReadPath])

\* The path ends with a dot and the extension.
HasExtension(path, ext) ==
  /\ Len(path) > Len(ext)
  /\ SubSeq(path, Len(path) - Len(ext), Len(path)) = <<".">> \o ext

(***************************************************************************)
(* C12.  Final output survives: for every input file name and every        *)
(* new extension (unset or set, without the version-control move), when    *)
(* the file's sweep 2 completes a file holding the sweep-2 output exists   *)
(* at the output path; when the new extension is set, that path carries    *)
(* the new extension and the original input path no longer exists.         *)
(***************************************************************************)
C12_FinalOutputSurvives ==
  [][ (CloseStep2 /\ ~git_move) =>
        LET output == Self.output_file_name
        IN /\ output \in DOMAIN fs'
           /\ fs'[output] = fs[output]
           /\ Len(new_extension) > 0 =>
                /\ HasExtension(output, new_extension)
                /\ Self.input_file_name \notin DOMAIN fs' ]_vars

\* The lines of the open candidate read before this step: from its header
\* line to the line read last.
Held ==
  IF Self.current_state = SEARCH_FOR_FUNC THEN << >>
  ELSE SubSeq(InputOf(pc.p), HeaderIndex, pc.n)

\* The step is the end of a sweep 1: every line of the input has been
\* handled and convert_func_decl goes on after operate_on_file.
CloseStep1 ==
  /\ pc.loop = 1
  /\ pc.at = "line"
  /\ pc.n = Len(fs[ReadPath])

(***************************************************************************)
(* C13.  Text conservation in sweep 1: every input line outside the span   *)
(* of a confirmed candidate is written exactly once and in order.  Step by *)
(* step: a line step that is not an accepted brace step either keeps the   *)
(* candidate open and writes nothing, or writes exactly the lines held for *)
(* the candidate (blank lines included) followed by the line read; and at  *)
(* the end of the file the lines held for a candidate that is still open   *)
(* are written.                                                            *)
(***************************************************************************)
C13_TextConservation ==
  [][ /\ (AtLine(1) /\ ~AcceptedStep) =>
           IF parsers'[pc.p].current_state = SEARCH_FOR_FUNC
             THEN WrittenBy(Held \o << CurrentLine >>)
             ELSE WrittenBy(<< >>)
      /\ CloseStep1 =>
           fs'[Self.output_file_name] = fs[Self.output_file_name] \o Held ]_vars

\* The position of the first "(" and of the last ")" of a line (0 if none).
RECURSIVE FirstOpen(_, _)
FirstOpen(line, k) ==
  IF k > Len(line) THEN 0
  ELSE IF line[k] = "(" THEN k ELSE FirstOpen(line, k + 1)

RECURSIVE LastClose(_, _)
LastClose(line, k) ==
  IF k < 1 THEN 0
  ELSE IF line[k] = ")" THEN k ELSE LastClose(line, k - 1)

\* A stored signature as a parameter list: `type name` or `type* name`,
\* joined by a comma and a space, in stored order.
StoredList(sig) ==
  CommaJoined([k \in DOMAIN sig |->
                 sig[k][1] \o (IF sig[k][3] THEN <<"*">> ELSE << >>)
                   \o <<" ">> \o sig[k][2]])

\* The line with its parenthesized group replaced by the stored list.
Filled(line, sig) ==
  SubSeq(line, 1, FirstOpen(line, 1))
    \o StoredList(sig)
    \o SubSeq(line, LastClose(line, Len(line)), Len(line))

\* The table the declaration's own `static` flag selects.
SelectedTable(line) ==
  IF HasGroup(forward_declaration_match(line), "static")
    THEN Self.function_dict ELSE global_function_dict

\* The line is a forward declaration of a function of the selected table.
Resolves(line) ==
  /\ Matched(forward_declaration_match(line))
  /\ forward_declaration_match(line).groups["name"] \in DOMAIN SelectedTable(line)

\* The prompt of this step is answered 'n'.
AnsweredNo == last'.asked /\ last'.answer = "n"

(***************************************************************************)
(* C14.  Sweep 2 line rule: for every line read, sweep 2 writes the line   *)
(* with its parenthesized group replaced by the stored parameter list, in  *)
(* stored order, if and only if the line matches the forward-declaration   *)
(* pattern, its name is a key of the table selected by its own `static`    *)
(* flag, and the prompt is not answered 'n'; otherwise it writes the line  *)
(* unchanged.  No error is raised, and exactly one line is written per     *)
(* line read.                                                              *)
(***************************************************************************)
C14_SweepTwoLineRule ==
  [][ AtLine(2) =>
        /\ pc' = [pc EXCEPT !.n = @ + 1]
        /\ Len(fs'[Self.output_file_name]) = Len(fs[Self.output_file_name]) + 1
        /\ IF Resolves(CurrentLine) /\ ~AnsweredNo
             THEN WrittenBy(<< Filled(CurrentLine,
                                      SelectedTable(CurrentLine)[
                                        forward_declaration_match(CurrentLine).groups["name"]]) >>)
             ELSE WrittenBy(<< CurrentLine >>) ]_vars

\* `static void foo();` has been filled from the file's own table, the
\* global table being empty.
C14_Witness ==
  /\ last.op = "declaration_converter"
  /\ last.branch = "accepted"
  /\ last.line = FwdStaticFoo
  /\ pc.loop = 2
  /\ Len(OutputOf(pc.p)) >= 1
  /\ \E k \in DOMAIN OutputOf(pc.p) :
       OutputOf(pc.p)[k] =
         Filled(FwdStaticFoo, << << <<"i", "n", "t">>, <<"x">>, FALSE >> >>)
  /\ global_function_dict = << >>

\* Some header line of the content names the function.
HasHeaderOf(content, name) ==
  \E k \in DOMAIN content :
    /\ Matched(function_name_match(content[k]))
    /\ function_name_match(content[k]).groups["name"] = name

\* The signatures confirmed in sweep 1 of entry i with at least one
\* parameter: those of its file-scoped table, and those of the global table
\* whose header stands in the file.
ConfirmedIn(i) ==
  { n \in DOMAIN parsers[i].function_dict : Len(parsers[i].function_dict[n]) > 0 }
    \cup { n \in DOMAIN global_function_dict :
             /\ Len(global_function_dict[n]) > 0
             /\ HasHeaderOf(fs0[files[i]], n) }

\* The line is still an empty-parameter declaration of the function.
DeclaresEmpty(line, name) ==
  /\ Matched(forward_declaration_match(line))
  /\ forward_declaration_match(line).groups["name"] = name

(***************************************************************************)
(* C15.  Same-file backfill completeness: when a run with confirmation     *)
(* disabled has ended, for every function confirmed in sweep 1 of a file   *)
(* - static, externally visible, or file-private by the missing            *)
(* return-type default - no line of that file's final output is still a    *)
(* forward declaration of that function with an empty parameter list:      *)
(* every such line of the file was rewritten with the parameter list.      *)
(***************************************************************************)
C15_SameFileBackfill ==
  (pc = Done /\ ~prompt_confirmation) =>
    \A i \in DOMAIN files :
      Exists(FinalPath(files[i])) =>
        \A k \in DOMAIN fs[FinalPath(files[i])] :
          \A n \in ConfirmedIn(i) :
            ~DeclaresEmpty(fs[FinalPath(files[i])][k], n)

\* The line is a `static` forward declaration of a function that this
\* file's table does not hold and another entry's table does.
ForeignStatic(line) ==
  /\ Matched(forward_declaration_match(line))
  /\ HasGroup(forward_declaration_match(line), "static")
  /\ forward_declaration_match(line).groups["name"] \notin DOMAIN Self.function_dict
  /\ \E i \in DOMAIN parsers \ {pc.p} :
       forward_declaration_match(line).groups["name"]
         \in DOMAIN parsers[i].function_dict

(***************************************************************************)
(* C16.  File-scoped isolation: a step of sweep 1 or sweep 2 of a file     *)
(* leaves the file-scoped table and the parser state of every other entry  *)
(* unchanged, and a `static` forward declaration is never filled from a    *)
(* function recorded as file-private by another entry, even when the names *)
(* are equal: the line is written as it is.                                *)
(***************************************************************************)
C16_FileScopedIsolation ==
  [][ /\ \A i \in DOMAIN parsers :
           (pc.p \notin DOMAIN parsers \/ i # pc.p) => parsers'[i] = parsers[i]
      /\ (AtLine(2) /\ ForeignStatic(CurrentLine)) => WrittenBy(<< CurrentLine >>)
    ]_vars

\* The second file's `static void foo();` has been written unchanged while
\* the first file's table holds its own static foo.
C16_Witness ==
  /\ Len(files) = 2
  /\ files[1] # files[2]
  /\ pc.loop = 2
  /\ last.p = 2
  /\ last.op = "declaration_converter"
  /\ last.line = FwdStaticFoo
  /\ last.wrote = << FwdStaticFoo >>
  /\ <<"f", "o", "o">> \in DOMAIN parsers[1].function_dict
  /\ parsers[2].function_dict = << >>

\* The header the step writes for the span when the rewrite is accepted.
RewrittenHeader ==
  HeaderText(Span[1], [k \in DOMAIN ArgLines(Span) |->
                         ParamTypeStar(ArgLines(Span)[k])])

\* The output grows and the last line written is the line read.
WroteLineLast ==
  /\ Len(fs'[Self.output_file_name]) > Len(fs[Self.output_file_name])
  /\ fs'[Self.output_file_name][Len(fs'[Self.output_file_name])] = CurrentLine

(***************************************************************************)
(* C17.  Declined rewrite records nothing: when the prompt of sweep 1 for  *)
(* a candidate at its brace line is answered 'n', neither the global table *)
(* nor a file-scoped table changes, the brace line is still written and    *)
(* the parser returns to SEARCH_FOR_FUNC; any other answer, the empty one  *)
(* included, writes the rewritten header and the brace line and adds the   *)
(* signature to exactly one table.                                         *)
(***************************************************************************)
C17_DeclineRecordsNothing ==
  [][ (BraceStep /\ last'.asked) =>
        /\ parsers'[pc.p].current_state = SEARCH_FOR_FUNC
        /\ WroteLineLast
        /\ IF last'.answer = "n"
             THEN NoTableChanges
             ELSE /\ WrittenBy(<< RewrittenHeader, CurrentLine >>)
                  /\ \/ OnlyGlobal(SpanName, SpanSignature)
                     \/ OnlyFileScoped(SpanName, SpanSignature)
                  /\ SpanName \in
                       DOMAIN global_function_dict' \cup DOMAIN parsers'[pc.p].function_dict
    ]_vars

\* The rewrite of f has been declined after the rewrite of bar was accepted:
\* bar alone is recorded, the header of f is written as it was read.
C17_Witness ==
  /\ last.op = "replace_function"
  /\ last.asked
  /\ last.answer = "n"
  /\ last.line = Brace
  /\ DOMAIN global_function_dict = { <<"b", "a", "r">> }
  /\ parsers[last.p].function_dict = << >>
  /\ parsers[last.p].current_state = SEARCH_FOR_FUNC
  /\ OutputOf(last.p) = << RetInt, HeaderBar, Brace, RetInt, HeaderF1, ArgIntA, Brace >>

\* Every name of the table keeps, after the step, the list it maps to.
Kept(table, table_after) ==
  \A n \in DOMAIN table : n \in DOMAIN table_after /\ table_after[n] = table[n]

(***************************************************************************)
(* C18.  Signature immutability: once a signature is recorded for a name   *)
(* in the global table or in a file-scoped table, the table maps the name  *)
(* to the same parameter list in every later state - also when a later     *)
(* candidate of the same name is confirmed in the same file or in a later  *)
(* file.                                                                   *)
(***************************************************************************)
C18_SignatureImmutable ==
  [][ /\ Kept(global_function_dict, global_function_dict')
      /\ \A i \in DOMAIN parsers :
           Kept(parsers[i].function_dict, parsers'[i].function_dict) ]_vars

(***************************************************************************)
(* A whole run as a function of the file list and the file contents, with  *)
(* every rewrite accepted: operate_on_file folds the handler over the      *)
(* lines, parse_files runs sweep 1 on every file and then sweep 2 on every *)
(* file.                                                                   *)
(***************************************************************************)
\* function_converter: the handler of the parser's state.
function_converter(self, line, global) ==
  IF self.current_state = SEARCH_FOR_FUNC THEN search_for_func(self, line, global)
  ELSE IF self.current_state = READ_ARGUMENTS THEN read_arguments(self, line, global)
  ELSE replace_function(self, line, "y", global)

\* operate_on_file with function_converter, from line k on.
RECURSIVE operate_sweep1(_, _, _, _, _)
operate_sweep1(self, out, global, lines, k) ==
  IF k > Len(lines) THEN [self |-> self, out |-> out, global |-> global]
  ELSE LET o == function_converter(self, lines[k], global)
       IN operate_sweep1(o.self, WriteLines(out, o.wrote), o.global, lines, k + 1)

\* operate_on_file with declaration_converter, from line k on.
RECURSIVE operate_sweep2(_, _, _, _, _)
operate_sweep2(self, out, global, lines, k) ==
  IF k > Len(lines) THEN out
  ELSE LET o == declaration_converter(self, lines[k], "y", global)
       IN operate_sweep2(o.self, WriteLines(out, o.wrote), global, lines, k + 1)

\* The first loop of parse_files over the entries from i on: the global
\* table it leaves and, for each path, the parser and the sweep-1 output.
RECURSIVE first_loop(_, _, _, _, _)
first_loop(order, contents, i, global, swept) ==
  IF i > Len(order) THEN [global |-> global, swept |-> swept]
  ELSE LET r == operate_sweep1(NewParser(order[i]), << >>, global,
                               contents[order[i]], 1)
       IN first_loop(order, contents, i + 1, r.global,
                     (order[i] :> [self |-> r.self, out |-> r.out]) @@ swept)

\* parse_files: the global table after the first loop and the final output
\* of every path.
parse_files(order, contents) ==
  LET first == first_loop(order, contents, 1, << >>, << >>)
  IN [ global |-> first.global,
       output |-> [path \in Range(order) |->
                     operate_sweep2(first.swept[path].self, << >>, first.global,
                                    first.swept[path].out, 1)] ]

\* The externally visible names confirmed in a file.
GlobalsOf(content) ==
  DOMAIN operate_sweep1(NewParser(<< >>), << >>, << >>, content, 1).global

\* Every externally visible name is confirmed in at most one file.
UniqueGlobals ==
  \A a, b \in Range(files) :
    a # b => GlobalsOf(fs0[a]) \cap GlobalsOf(fs0[b]) = {}

\* The file list in the other order.
Reversed(order) == [i \in DOMAIN order |-> order[Len(order) + 1 - i]]

(***************************************************************************)
(* C19.  File-order independence: if every externally visible function     *)
(* name is confirmed in at most one file of the run, then the run over the *)
(* file list in the other order leaves the same global table after the     *)
(* first sweeps and the same final output for every file as this run has   *)
(* (runs over distinct files that end normally with no rewrite declined).  *)
(***************************************************************************)
C19_OrderIndependence ==
  (/\ pc = Done
   /\ ~declined
   /\ Len(files) = 2
   /\ files[1] # files[2]
   /\ UniqueGlobals)
    => LET other == parse_files(Reversed(files), fs0)
       IN /\ global_function_dict = other.global
          /\ \A path \in Range(files) :
               /\ Exists(FinalPath(path))
               /\ fs[FinalPath(path)] = other.output[path]

\* A run over the declaration of foo followed by the definition of foo has
\* ended; the run in the other order fills the declaration in the same way.
C19_Witness ==
  /\ pc = Done
  /\ ~declined
  /\ files = << PathA, PathB >>
  /\ fs0[PathA] = << FwdFoo >>
  /\ fs0[PathB] = DefFooFile
  /\ UniqueGlobals
  /\ fs[FinalPath(PathA)] = << FwdFooFilled >>
  /\ parse_files(<< PathB, PathA >>, fs0).output[PathA] = << FwdFooFilled >>

(***************************************************************************)
(* A K&R definition with more parameters than CPython has single int       *)
(* objects for: the header f(a,a,...,a), one argument-declaration line per *)
(* name, and the brace line.                                               *)
(***************************************************************************)
WideHeader(n) ==
  <<"f", "(">> \o [k \in 1..(2 * n - 1) |-> IF k % 2 = 1 THEN "a" ELSE ","]
               \o <<")", "\n">>

WideFile(n) == << WideHeader(n) >> \o [k \in 1..n |-> ArgIntA] \o << Brace >>

\* One file: the wide definition, or one of the longer example files.
InitWide ==
  InitWith({ << PathA >> }, ExampleFiles \cup { WideFile(SmallIntMax + 1) })

SpecWide == InitWide /\ [][Next]_vars

\* Sweep 1 is between two line steps, at its start, or after its last line.
BetweenLineSteps == pc.loop = 1 /\ pc.at = "line"

\* The accumulator starts with the header line: its first line matches the
\* function-header pattern, and the lines accumulated in READ_ARGUMENTS are
\* the lines read last.
StartsWithHeader ==
  /\ Len(Self.accumulated_lines) >= 1
  /\ Len(Self.accumulated_lines) <= pc.n
  /\ Matched(function_name_match(Self.accumulated_lines[1]))
  /\ Self.accumulated_lines
       = SubSeq(fs[ReadPath], pc.n - Len(Self.accumulated_lines) + 1, pc.n)

(***************************************************************************)
(* C20.  Parser state invariant of sweep 1, between any two line steps:    *)
(* in SEARCH_FOR_FUNC the accumulator and the parameter list are empty and *)
(* the expected argument count is 0; in READ_ARGUMENTS the expected count  *)
(* is at least 1, fewer parameters than that are collected, and the        *)
(* accumulator starts with the header line; in REPLACE_FUNCTION the number *)
(* of collected parameters equals the expected count.                      *)
(***************************************************************************)
C20_ParserStateInvariant ==
  BetweenLineSteps =>
    /\ Self.current_state = SEARCH_FOR_FUNC =>
         /\ Self.accumulated_lines = << >>
         /\ Self.function_args = << >>
         /\ Self.function_args_count = 0
    /\ Self.current_state = READ_ARGUMENTS =>
         /\ Self.function_args_count >= 1
         /\ Len(Self.function_args) < Self.function_args_count
         /\ StartsWithHeader
    /\ Self.current_state = REPLACE_FUNCTION =>
         Len(Self.function_args) = Self.function_args_count

=============================================================================
